---- MODULE Spec2Model ----
(***************************************************************************)
(* Model of lablog.py: the keystroke-driven session logger.                *)
(*                                                                         *)
(* Representation of text.  A Python str is a sequence of tokens; a token  *)
(* is a fixed run of characters (one TLA+ string).  The empty str is <<>>. *)
(* A whitespace run is the token " "; the line terminator is the token     *)
(* "\n".  No other token starts or ends with whitespace, so strip() works  *)
(* on whole tokens.  Every str of the model is built by the same           *)
(* formatting operators, so equal strs have equal token sequences.         *)
(* Python's None for Logger.file_path and Logger.current_task is <<>>:     *)
(* the code never stores an empty str in either field.                     *)
(***************************************************************************)
EXTENDS Naturals, Sequences, FiniteSets, TLC

(* ----------------------------- bounds ---------------------------------- *)
\* most event lines held in Logger.entries at one time
MaxEvents == 2
\* largest value of Logger.recording_index that is explored
MaxRec == 2

(* ------------------------- str operations ------------------------------ *)
WS == {" ", "\t"}

RECURSIVE lstrip(_)
lstrip(s) == IF s # <<>> /\ Head(s) \in WS THEN lstrip(Tail(s)) ELSE s

RECURSIVE rstrip(_)
rstrip(s) ==
    IF s # <<>> /\ s[Len(s)] \in WS THEN rstrip(SubSeq(s, 1, Len(s) - 1)) ELSE s

\* str.strip()
strip(s) == rstrip(lstrip(s))

\* str.upper() of one token: the lower-case runs the inputs contain
upperToken(t) ==
    CASE t = "start recording" -> "START RECORDING"
      [] t = "stop recording"  -> "STOP RECORDING"
      [] t = "start task"      -> "START TASK"
      [] t = "stop task"       -> "STOP TASK"
      [] t = "hi"              -> "HI"
      [] t = "reach"           -> "REACH"
      [] OTHER                 -> t

\* str.upper()
upper(s) == [i \in 1..Len(s) |-> upperToken(s[i])]

Digits == <<"0", "1", "2", "3", "4", "5", "6", "7", "8", "9">>

\* str.isdigit(): non-empty and every character a digit
isdigit(s) ==
    /\ s # <<>>
    /\ \A i \in 1..Len(s) : \E d \in 1..10 : Digits[d] = s[i]

digitValue(t) == (CHOOSE d \in 1..10 : Digits[d] = t) - 1

\* int() of a digit str
RECURSIVE int(_)
int(s) ==
    IF s = <<>> THEN 0
    ELSE 10 * int(SubSeq(s, 1, Len(s) - 1)) + digitValue(s[Len(s)])

\* str(n) for a small natural number
str(n) == IF n < 10 THEN <<Digits[n + 1]>> ELSE <<ToString(n)>>

\* a or b, on strs
Or(a, b) == IF a # <<>> THEN a ELSE b

\* str.startswith(prefix) for a one-token prefix
startswith(s, prefix) == s # <<>> /\ Head(s) = prefix

(* --------------------------- configuration ----------------------------- *)
\* dict.get(k, default)
Get(d, k, default) == IF k \in DOMAIN d THEN d[k] ELSE default

DEFAULT_CONFIG ==
    [ output_dir  |-> <<"logs">>,
      macros      |-> << [key |-> "1", label |-> <<"START RECORDING">>, text |-> <<"START RECORDING">>],
                         [key |-> "2", label |-> <<"STOP RECORDING">>,  text |-> <<"STOP RECORDING">>],
                         [key |-> "3", label |-> <<"START TASK">>,      text |-> <<"START TASK">>],
                         [key |-> "4", label |-> <<"STOP TASK">>,       text |-> <<"STOP TASK">>],
                         [key |-> "5", label |-> <<"FIX CAMERA">>,      text |-> <<"FIX CAMERA">>],
                         [key |-> "6", label |-> <<"PAUSE TASK">>,      text |-> <<"PAUSE TASK">>],
                         [key |-> "7", label |-> <<"RESUME TASK">>,     text |-> <<"RESUME TASK">>],
                         [key |-> "8", label |-> <<"ADJUST LIGHTING/CAMERA">>, text |-> <<"ADJUST LIGHTING/CAMERA">>],
                         [key |-> "9", label |-> <<"SLEEPY">>,          text |-> <<"SLEEPY">>] >>,
      tasks       |-> << <<"simple touch">>, <<"center out reach">> >>,
      note_key    |-> "n",
      mark_key    |-> "m",
      liquid_key  |-> "l",
      undo_key    |-> "u",
      reload_key  |-> "r",
      stop_key    |-> "q",
      help_key    |-> "h",
      timestamp_format |-> <<"%Y-%m-%d %H:%M:%S">>,
      line_time_format |-> <<"%H:%M:%S">> ]

\* What lablog_config.json may hold when it is read.  "missing": no file;
\* "malformed": not JSON; otherwise the parsed JSON object.
CustomJson ==
    [ macros   |-> << [key |-> "1", label |-> <<"Rec">>, text |-> <<"start recording", " ">>],
                      [key |-> "1", label |-> <<"SLEEPY">>, text |-> <<"SLEEPY">>],
                      [key |-> "h", text |-> <<"SHADOWED">>],
                      [key |-> "n", text |-> <<"SHADOWED">>],
                      [key |-> "l", text |-> <<"SHADOWED">>],
                      [key |-> "m", text |-> <<"SHADOWED">>],
                      [key |-> "u", text |-> <<"SHADOWED">>],
                      [key |-> "r", text |-> <<"SHADOWED">>],
                      [key |-> "x", text |-> <<"SHADOWED">>],
                      [key |-> "3", label |-> <<"START TASK">>],
                      [key |-> "4", label |-> <<"Stop">>, text |-> <<" ", "stop task">>],
                      [key |-> "5", label |-> <<>>, text |-> <<>>],
                      [label |-> <<"ORPHAN">>, text |-> <<"ORPHAN">>] >>,
      tasks    |-> << <<"reach">> >>,
      stop_key |-> "x",
      colour   |-> <<"blue">> ]

\* a file without macros that gives two fixed roles the key of an earlier one:
\* note shares "h" with help, stop shares "u" with undo
ClashJson == [ note_key |-> "h", stop_key |-> "u", macros |-> <<>> ]

ConfigFiles ==
    { [kind |-> "missing"], [kind |-> "malformed"],
      [kind |-> "json", cfg |-> CustomJson],
      [kind |-> "json", cfg |-> ClashJson] }

\* load_config(path): the pair (config, config_loaded)
load_config(file) ==
    IF file.kind = "missing" THEN [config |-> DEFAULT_CONFIG, loaded |-> FALSE]
    ELSE IF file.kind = "malformed" THEN [config |-> DEFAULT_CONFIG, loaded |-> FALSE]
    ELSE LET cfg == file.cfg
             merged == [k \in DOMAIN DEFAULT_CONFIG |->
                          IF k \in DOMAIN cfg THEN cfg[k] ELSE DEFAULT_CONFIG[k]]
         IN  [config |-> merged, loaded |-> TRUE]


(* ------------------------------- inputs -------------------------------- *)
\* characters RawInput.getch() may return; "" is a read at end of input
Chars == {"1", "2", "3", "4", "5", "h", "n", "l", "m", "u", "r", "q", "x", " ", ""}

\* An operator uses a part of the keyboard during one session: the keys every
\* session uses, and those of the recording, the task or the liquid events.
CommonChars == {"h", "u", "r", "q", "x", " ", ""}
Repertoires ==
    { CommonChars \cup {"1", "2", "5", "n"},
      CommonChars \cup {"3", "4"},
      CommonChars \cup {"l", "m"} }

\* datetime.now() rendered with line_time_format
Times == {"10:00:00"}

\* datetime.now() rendered as %Y-%m-%d and as %y%m%d
Dates == {[date_str |-> "2024-03-09", file_date |-> "240309"]}

\* the lines typed at the four start-up prompts
StartAnswers ==
    { [behaviorists |-> <<" ", "Jane", " ", "Doe", "!">>, animal_id |-> <<>>,
       animal_weight |-> <<"7.2">>, notes |-> <<>>] }

\* the lines typed at the prompts of the handlers
NoteAnswers   == {<<>>, <<"hi">>, <<" ", "start recording", " ">>}
TaskAnswers   == {<<>>, <<" ">>, <<"2">>, <<"reach">>}
TrialAnswers  == {<<>>, <<"12/3">>}
AmountAnswers == {<<>>, <<"5">>}
TypeAnswers   == {<<>>, <<"1">>, <<"2">>, <<"milk">>}

(* ------------------------------- state --------------------------------- *)
VARIABLES
    pc,               \* "start", "AwaitingKey", "PromptingText", "Stopped", "Interrupted",
                      \* "Crashed" (an exception other than KeyboardInterrupt ended main)
    prompt,           \* the prompt main() is blocked in: "", "note", "amount", "type", "task", "trials"
    amount,           \* prompt_liquid's local amount while the type is asked
    config,           \* Logger.config
    config_loaded,    \* Logger.config_loaded
    entries,          \* Logger.entries
    file_path,        \* Logger.file_path
    disk,             \* content of the file the session's path names
    session_started,  \* Logger.session_started
    recording_index,  \* Logger.recording_index
    current_task,     \* Logger.current_task
    term,             \* mode of the controlling terminal: "cooked" or "raw"
    _old,             \* RawInput._old: the mode saved by __enter__, "" for None
    out,              \* what the last step wrote to stdout
    last,             \* history: the handler that ran last and what it was given
    repertoire        \* the characters the operator types in this session

vars == <<pc, prompt, amount, config, config_loaded, entries, file_path, disk,
          session_started, recording_index, current_task, term, _old, out, last,
          repertoire>>

logger == <<config, config_loaded, entries, file_path, disk, session_started,
            recording_index, current_task>>

(* --------------------------- Logger methods ---------------------------- *)
\* "\n".join(lines)
RECURSIVE join(_)
join(lines) ==
    IF lines = <<>> THEN <<>>
    ELSE IF Len(lines) = 1 THEN lines[1]
    ELSE lines[1] \o <<"\n">> \o join(Tail(lines))

\* a write that leaves the last line unterminated
write_all_unterminated(fp, lines, old) ==
    IF fp = <<>> THEN old ELSE join(lines)

\* a write that opens the file for appending
write_all_appending(fp, lines, old) ==
    IF fp = <<>> THEN old ELSE old \o join(lines) \o <<"\n">>

\* Logger.write_all: the new content of the file
write_all(fp, lines, old) ==
    IF fp = <<>> THEN old ELSE join(lines) \o <<"\n">>

\* reading the file back: f.read().split("\n") without the final terminator
RECURSIVE splitlines(_, _)
splitlines(content, cur) ==
    IF content = <<>> THEN (IF cur = <<>> THEN <<>> ELSE <<cur>>)
    ELSE IF Head(content) = "\n" THEN <<cur>> \o splitlines(Tail(content), <<>>)
    ELSE splitlines(Tail(content), Append(cur, Head(content)))

\* a rendering that compares the text without trimming it
render_untrimmed(text, ri) ==
    LET up == upper(text) IN
    IF up = <<"START RECORDING">>
      THEN [rendered |-> <<"START RECORDING", " (REC ">> \o str(ri + 1) \o <<")">>,
            recording_index |-> ri + 1]
    ELSE IF up = <<"STOP RECORDING">>
      THEN IF ri > 0
             THEN [rendered |-> <<"STOP RECORDING", " (REC ">> \o str(ri) \o <<")">>,
                   recording_index |-> ri]
             ELSE [rendered |-> <<"STOP RECORDING", " (REC ?)">>, recording_index |-> ri]
    ELSE [rendered |-> text, recording_index |-> ri]

\* Logger.render_entry_text: the rendered text and the new recording_index
render_entry_text(text, ri) ==
    LET up == upper(strip(text)) IN
    IF up = <<"START RECORDING">>
      THEN [rendered |-> <<"START RECORDING", " (REC ">> \o str(ri + 1) \o <<")">>,
            recording_index |-> ri + 1]
    ELSE IF up = <<"STOP RECORDING">>
      THEN IF ri > 0
             THEN [rendered |-> <<"STOP RECORDING", " (REC ">> \o str(ri) \o <<")">>,
                   recording_index |-> ri]
             ELSE [rendered |-> <<"STOP RECORDING", " (REC ?)">>, recording_index |-> ri]
    ELSE [rendered |-> text, recording_index |-> ri]

\* the line Logger.append_entry builds
entry_line(rendered, t) == <<"- [", t, "] ">> \o rendered

\* an undo that scans from the front: it pops the oldest event line
undo_index_oldest(lines) ==
    LET ev == {i \in 1..Len(lines) : startswith(lines[i], "- [")}
    IN  IF ev = {} THEN 0 ELSE CHOOSE i \in ev : \A j \in ev : i <= j

\* an undo without the header test: it pops the last line, whatever it is
undo_index_any(lines) == Len(lines)

\* Logger.undo: the index of the line to pop, 0 if there is none
undo_index(lines) ==
    LET ev == {i \in 1..Len(lines) : startswith(lines[i], "- [")}
    IN  IF ev = {} THEN 0 ELSE CHOOSE i \in ev : \A j \in ev : j <= i

\* list.pop(i)
pop(lines, i) == SubSeq(lines, 1, i - 1) \o SubSeq(lines, i + 1, Len(lines))

\* Logger.sanitize
sanitizeToken(t) ==
    IF t \in {"Jane", "Doe", "M1", "7.2", "calm", " "} THEN t ELSE "_"

sanitize(s) ==
    LET st == strip(s)
        cleaned == strip([i \in 1..Len(st) |-> sanitizeToken(st[i])])
        under == [i \in 1..Len(cleaned) |-> IF cleaned[i] = " " THEN "_" ELSE cleaned[i]]
    IN  Or(under, <<"unknown">>)

\* Logger.start_session: the header block
header(a, date, t) ==
    << <<"# Session Log">>,
       <<"- Date: ", date.date_str>>,
       <<"- Behaviorist(s): ">> \o Or(a.behaviorists, <<"N/A">>),
       <<"- Simia: ">> \o Or(a.animal_id, <<"N/A">>),
       <<"- Weight: ">> \o Or(a.animal_weight, <<"N/A">>),
       <<"- Notes: ">> \o Or(a.notes, <<"N/A">>),
       <<"- Started: [", t, "]">>,
       <<>>,
       <<"## Events">> >>

\* Logger.start_session: the path of the session file
session_path(a, date, cfg) ==
    LET beh_part == IF a.behaviorists # <<>> THEN sanitize(a.behaviorists) ELSE <<"behaviorists">>
        animal_part == IF a.animal_id # <<>> THEN sanitize(a.animal_id) ELSE <<"animal">>
    IN  Get(cfg, "output_dir", <<"logs">>) \o <<"/", date.file_date, "_">> \o beh_part
          \o <<"_">> \o animal_part \o <<".md">>

\* What the session's path may name when the session starts: no file, or the
\* log of an earlier session of the same day, behaviorists and subject.
EarlierSession ==
    header([behaviorists |-> <<"Jane", " ", "Doe", "!">>, animal_id |-> <<>>,
            animal_weight |-> <<"7.1">>, notes |-> <<"calm">>],
           [date_str |-> "2024-03-09", file_date |-> "240309"], "09:00:00")
      \o << entry_line(<<"---">>, "09:00:00"), entry_line(<<"SESSION END">>, "09:05:00") >>

ExistingFiles == {<<>>, join(EarlierSession) \o <<"\n">>}

\* a prompt that never looks the number up in the task list
prompt_task_verbatim(cfg, typed) == strip(typed)

\* Logger.prompt_task: the task chosen by the typed line
prompt_task(cfg, typed) ==
    LET tasks == Get(cfg, "tasks", <<>>)
        choice == strip(typed)
    IN  IF isdigit(choice) /\ 1 <= int(choice) /\ int(choice) <= Len(tasks)
          THEN tasks[int(choice)]
          ELSE choice

\* Logger.prompt_trials
prompt_trials(typed) == strip(typed)

\* a prompt_liquid that knows only the first of the two shorthands
prompt_liquid_water_only(typedAmount, typedType) ==
    LET amt == strip(typedAmount)
        ty  == strip(typedType)
        liquid_type == IF ty = <<"1">> THEN <<"water">> ELSE ty
    IN  IF amt # <<>> /\ liquid_type # <<>>
          THEN <<"LIQUID", ": ">> \o amt \o <<" mL">> \o <<" (">> \o liquid_type \o <<")">>
        ELSE IF amt # <<>> THEN <<"LIQUID", ": ">> \o amt \o <<" mL">>
        ELSE <<"LIQUID">>

\* Logger.prompt_liquid: the entry composed from the two typed lines
prompt_liquid(typedAmount, typedType) ==
    LET amt == strip(typedAmount)
        ty  == strip(typedType)
        liquid_type == IF ty = <<"1">> THEN <<"water">>
                       ELSE IF ty = <<"2">> THEN <<"diluted juice">> ELSE ty
    IN  IF amt # <<>> /\ liquid_type # <<>>
          THEN <<"LIQUID", ": ">> \o amt \o <<" mL">> \o <<" (">> \o liquid_type \o <<")">>
        ELSE IF amt # <<>> THEN <<"LIQUID", ": ">> \o amt \o <<" mL">>
        ELSE <<"LIQUID">>

(* ------------------------------ terminal ------------------------------- *)
\* RawInput.__enter__: the mode found is saved and the terminal goes raw
RawInput_enter(mode) == [_old |-> mode, term |-> "raw"]

\* an __exit__ that leaves the terminal as it finds it
RawInput_exit_keeps(old, mode) == mode

\* RawInput.__exit__: the saved mode is put back, if one was saved
RawInput_exit(old, mode) == IF old # "" THEN old ELSE mode

\* the position of a statement in a statement list
Index(steps, step) == CHOOSE i \in 1..Len(steps) : steps[i] = step

Before(steps, a, b) == Index(steps, a) < Index(steps, b)

\* an append_entry that echoes the line before it writes the file
append_entry_echo_first == <<"render_entry_text", "append", "echo", "write_all">>

\* the statements of Logger.append_entry, in program order
append_entry_steps == <<"render_entry_text", "append", "write_all", "echo">>

\* a prompting branch that goes back to raw mode before it appends
prompt_branch_setraw_first == <<"tcsetattr", "input", "setraw", "append_entry">>

\* the statements of a prompting branch of main() (note, liquid, START TASK,
\* STOP TASK), in program order
prompt_branch == <<"tcsetattr", "input", "append_entry", "setraw">>

\* the terminal mode in which a statement of a branch runs, the branch being
\* entered in the given mode: tcsetattr puts back old, setraw sets raw
RECURSIVE ModeAt(_, _, _, _)
ModeAt(branch, step, old, mode) ==
    IF branch[1] = step THEN mode
    ELSE ModeAt(Tail(branch), step, old,
                IF branch[1] = "tcsetattr" THEN old
                ELSE IF branch[1] = "setraw" THEN "raw" ELSE mode)

(* ------------------------------ dispatch ------------------------------- *)
\* text = m.get("text") or m.get("label") or ""
macro_text(m) == Or(Get(m, "text", <<>>), Or(Get(m, "label", <<>>), <<>>))

\* a scan that does not stop at the first match: the last match handles key
match_macro_last(key, macros) ==
    LET hits == {i \in 1..Len(macros) : key = Get(macros[i], "key", "")}
    IN  IF hits = {} THEN 0 ELSE CHOOSE i \in hits : \A j \in hits : j <= i

\* the for loop over the macros: index of the macro that handles key, 0 if none
match_macro(key, macros) ==
    LET hits == {i \in 1..Len(macros) : key = Get(macros[i], "key", "")}
    IN  IF hits = {} THEN 0 ELSE CHOOSE i \in hits : \A j \in hits : i <= j

\* the branch of the macro loop taken for the macro at index i
macro_role(i, cfg) ==
    LET text == macro_text(cfg.macros[i])
        up == upper(strip(text))
    IN  IF up = <<"START TASK">> THEN [role |-> "start_task", macro |-> i]
        ELSE IF up = <<"STOP TASK">> THEN [role |-> "stop_task", macro |-> i]
        ELSE IF text # <<>> THEN [role |-> "macro", macro |-> i]
        ELSE [role |-> "macro_empty", macro |-> i]

\* fixed-role tests that try the stop key first
fixed_role_stop_first(key, cfg) ==
    IF key = Get(cfg, "stop_key", "q") THEN "stop"
    ELSE IF key = Get(cfg, "help_key", "h") THEN "help"
    ELSE IF key = Get(cfg, "note_key", "n") THEN "note"
    ELSE IF key = Get(cfg, "liquid_key", "l") THEN "liquid"
    ELSE IF key = Get(cfg, "mark_key", "m") THEN "mark"
    ELSE IF key = Get(cfg, "undo_key", "u") THEN "undo"
    ELSE IF key = Get(cfg, "reload_key", "r") THEN "reload"
    ELSE ""

\* the branch taken by the fixed-role tests, "" if none of them matches
fixed_role(key, cfg) ==
    IF key = Get(cfg, "help_key", "h") THEN "help"
    ELSE IF key = Get(cfg, "note_key", "n") THEN "note"
    ELSE IF key = Get(cfg, "liquid_key", "l") THEN "liquid"
    ELSE IF key = Get(cfg, "mark_key", "m") THEN "mark"
    ELSE IF key = Get(cfg, "undo_key", "u") THEN "undo"
    ELSE IF key = Get(cfg, "reload_key", "r") THEN "reload"
    ELSE IF key = Get(cfg, "stop_key", "q") THEN "stop"
    ELSE ""

\* a dispatch that scans the macros before the fixed-role tests
resolve_macros_first(ch, cfg) ==
    LET key == IF ch \in WS THEN "" ELSE ch
        i == match_macro(key, Get(cfg, "macros", <<>>))
    IN  IF ch = "" \/ key = "" THEN [role |-> "ignored", macro |-> 0]
        ELSE IF i # 0 THEN macro_role(i, cfg)
        ELSE IF fixed_role(key, cfg) # "" THEN [role |-> fixed_role(key, cfg), macro |-> 0]
        ELSE [role |-> "unknown", macro |-> 0]

\* the branch of main()'s loop body taken for the character ch
resolve(ch, cfg) ==
    LET key == IF ch \in WS THEN "" ELSE ch
        i == match_macro(key, Get(cfg, "macros", <<>>))
    IN  IF ch = "" \/ key = "" THEN [role |-> "ignored", macro |-> 0]
        ELSE IF fixed_role(key, cfg) # "" THEN [role |-> fixed_role(key, cfg), macro |-> 0]
        ELSE IF i = 0 THEN [role |-> "unknown", macro |-> 0]
        ELSE macro_role(i, cfg)

(* ------------------------------ actions -------------------------------- *)
EventCount(lines) == Cardinality({i \in 1..Len(lines) : startswith(lines[i], "- [")})

\* the characters that main() would dispatch to the given branch
Keys(role) == {ch \in repertoire : resolve(ch, config).role = role}

\* History record of a handler: what it was given and the state it found.
\* prev says whether the handler before it appended, and to which log.
HistOf(act, ch, typed, text, appended, file, prev) ==
    [ act      |-> act,
      key      |-> ch,
      typed    |-> typed,
      macro    |-> resolve(ch, config).macro,
      text     |-> text,
      appended |-> appended,
      file     |-> file,
      cfg      |-> config,
      prePc    |-> pc,
      pre      |-> entries,
      preDisk  |-> disk,
      preRec   |-> recording_index,
      preTask  |-> current_task,
      mode     |-> IF ~appended THEN ""
                   ELSE IF pc = "PromptingText"
                     THEN ModeAt(prompt_branch, "append_entry", _old, "raw")
                   ELSE term,
      starts   |-> IF appended /\ upper(strip(text)) = <<"START RECORDING">>
                     THEN last.starts + 1 ELSE last.starts,
      header0  |-> last.header0,
      prev     |-> prev ]

\* the record of a handler that starts at a key press
Hist(act, ch, text, appended, file) ==
    HistOf(act, ch, <<>>, text, appended, file,
           [appended |-> last.appended, pre |-> last.pre, preDisk |-> last.preDisk])

\* the record of a handler that finishes after its prompt
HistAnswer(act, typed, text, appended) ==
    HistOf(act, last.key, typed, text, appended, "", last.prev)

\* print_menu and the other feedback lines, as written to stdout
Menu == <<"Commands:">>

\* what the write_all of append_entry may leave in a file that held old when
\* it raises OSError: open() failed, or the file was truncated and nothing
\* reached it
FailedWrite(old) == {old, <<>>}

\* Logger.append_entry(text) at clock reading t, followed by the prints in
\* more.  ok: write_all returned; otherwise it raised, and only the statements
\* of append_entry before it have run.
AppendEntry(text, t, more, ok) ==
    LET r == render_entry_text(text, recording_index)
        line == entry_line(r.rendered, t)
        Ran(step) == ok \/ Before(append_entry_steps, step, "write_all")
    IN  /\ r.recording_index <= MaxRec
        /\ entries' = IF Ran("append") THEN Append(entries, line) ELSE entries
        /\ IF ok THEN disk' = write_all(file_path, Append(entries, line), disk)
                 ELSE disk' \in FailedWrite(disk)
        /\ recording_index' = IF Ran("render_entry_text") THEN r.recording_index
                                                          ELSE recording_index
        /\ out' = (IF Ran("echo") THEN <<line>> ELSE <<>>) \o (IF ok THEN more ELSE <<>>)

\* how a handler that called append_entry ends: it goes on to nextPc with the
\* terminal in nextTerm, or the OSError leaves main() through
\* RawInput.__exit__
Outcome(ok, nextPc, nextTerm) ==
    /\ pc' = IF ok THEN nextPc ELSE "Crashed"
    /\ term' = IF ok THEN nextTerm ELSE RawInput_exit(_old, term)
    /\ prompt' = ""
    /\ amount' = <<>>

Room == EventCount(entries) < MaxEvents

\* Logger.__init__ has run; main() runs start_session, print_menu and
\* RawInput.__enter__
StartSession ==
    /\ pc = "start"
    /\ \E a \in StartAnswers, d \in Dates, t \in Times :
         LET ans == [k \in DOMAIN a |-> strip(a[k])]
             fp == session_path(ans, d, config)
         IN  /\ file_path' = fp
             /\ entries' = header(ans, d, t)
             /\ last' = [Hist("start", "", <<>>, FALSE, "")
                           EXCEPT !.header0 = header(ans, d, t),
                                  !.typed = <<a.behaviorists, a.animal_id, a.animal_weight, a.notes>>]
             /\ disk' = write_all(fp, header(ans, d, t), disk)
    /\ session_started' = TRUE
    /\ pc' = "AwaitingKey"
    /\ term' = RawInput_enter(term).term
    /\ _old' = RawInput_enter(term)._old
    /\ out' = <<<<"Session file: ">>, Menu>>
    /\ UNCHANGED <<repertoire, prompt, amount, config, config_loaded, recording_index, current_task>>

\* getch() returned nothing or whitespace: continue
ReadIgnored ==
    /\ pc = "AwaitingKey"
    /\ \E ch \in Keys("ignored") : last' = Hist("ignored", ch, <<>>, FALSE, "")
    /\ out' = <<>>
    /\ UNCHANGED <<repertoire, pc, prompt, amount, term, _old, logger>>

Help ==
    /\ pc = "AwaitingKey"
    /\ \E ch \in Keys("help") : last' = Hist("help", ch, <<>>, FALSE, "")
    /\ out' = <<Menu>>
    /\ UNCHANGED <<repertoire, pc, prompt, amount, term, _old, logger>>

\* a handler leaves raw mode and blocks in input()
AskFor(role, what) ==
    /\ pc = "AwaitingKey"
    /\ \E ch \in Keys(role) : last' = Hist(role, ch, <<>>, FALSE, "")
    /\ pc' = "PromptingText"
    /\ prompt' = what
    /\ term' = _old
    /\ out' = <<<<what>>>>
    /\ UNCHANGED <<repertoire, amount, _old, logger>>

\* a branch that continues without tty.setraw
ResumeCooked ==
    /\ pc' = "AwaitingKey"
    /\ prompt' = ""
    /\ amount' = <<>>
    /\ term' = term

\* the handler is done: tty.setraw and continue
Resume ==
    /\ pc' = "AwaitingKey"
    /\ prompt' = ""
    /\ amount' = <<>>
    /\ term' = "raw"

Note == AskFor("note", "note")

\* Logger.note after input() returned
NoteAnswer ==
    /\ pc = "PromptingText" /\ prompt = "note"
    /\ \E typed \in NoteAnswers, t \in Times, ok \in BOOLEAN :
         LET note == strip(typed) IN
         IF note # <<>>
           THEN /\ Room
                /\ AppendEntry(note, t, <<>>, ok)
                /\ Outcome(ok, "AwaitingKey", "raw")
                /\ last' = HistAnswer("note", <<typed>>, note, TRUE)
           ELSE /\ ok
                /\ out' = <<>>
                /\ Resume
                /\ last' = HistAnswer("note", <<typed>>, <<>>, FALSE)
                /\ UNCHANGED <<entries, disk, recording_index>>
    /\ UNCHANGED <<repertoire, _old, config, config_loaded, file_path, session_started,
                   current_task>>

Liquid == AskFor("liquid", "amount")

\* prompt_liquid: the amount was typed, the type is asked
LiquidAmount ==
    /\ pc = "PromptingText" /\ prompt = "amount"
    /\ \E typed \in AmountAnswers : amount' = typed
    /\ prompt' = "type"
    /\ out' = <<<<"type">>>>
    /\ UNCHANGED <<repertoire, pc, term, _old, last, logger>>

\* prompt_liquid returned; main() appends the entry
LiquidType ==
    /\ pc = "PromptingText" /\ prompt = "type"
    /\ \E typed \in TypeAnswers, t \in Times, ok \in BOOLEAN :
         LET entry == prompt_liquid(amount, typed) IN
         IF entry # <<>>
           THEN /\ Room
                /\ AppendEntry(entry, t, <<>>, ok)
                /\ Outcome(ok, "AwaitingKey", "raw")
                /\ last' = HistAnswer("liquid", <<amount, typed>>, entry, TRUE)
           ELSE /\ ok
                /\ out' = <<>>
                /\ Resume
                /\ last' = HistAnswer("liquid", <<amount, typed>>, <<>>, FALSE)
                /\ UNCHANGED <<entries, disk, recording_index>>
    /\ UNCHANGED <<repertoire, _old, config, config_loaded, file_path, session_started,
                   current_task>>

\* Logger.mark
Mark ==
    /\ pc = "AwaitingKey"
    /\ Room
    /\ \E ch \in Keys("mark"), t \in Times, ok \in BOOLEAN :
         /\ AppendEntry(<<"---">>, t, <<>>, ok)
         /\ Outcome(ok, "AwaitingKey", term)
         /\ last' = Hist("mark", ch, <<"---">>, TRUE, "")
    /\ UNCHANGED <<repertoire, _old, config, config_loaded, file_path, session_started,
                   current_task>>

\* an undo that takes an undone START RECORDING back from recording_index
UndoRollsBack ==
    /\ pc = "AwaitingKey"
    /\ \E ch \in Keys("undo") : last' = Hist("undo", ch, <<>>, FALSE, "")
    /\ LET i == undo_index(entries) IN
       IF i # 0
         THEN /\ entries' = pop(entries, i)
              /\ disk' = write_all(file_path, pop(entries, i), disk)
              /\ out' = <<<<"Undone: ">>>>
              /\ recording_index' =
                   IF SubSeq(entries[i], 4, 4) = <<"START RECORDING">> /\ recording_index > 0
                     THEN recording_index - 1 ELSE recording_index
         ELSE /\ out' = <<<<"Nothing to undo.">>>>
              /\ UNCHANGED <<entries, disk, recording_index>>
    /\ UNCHANGED <<repertoire, pc, prompt, amount, term, _old, config, config_loaded, file_path,
                   session_started, current_task>>

\* Logger.undo
Undo ==
    /\ pc = "AwaitingKey"
    /\ \E ch \in Keys("undo") : last' = Hist("undo", ch, <<>>, FALSE, "")
    /\ LET i == undo_index(entries) IN
       IF i # 0
         THEN /\ entries' = pop(entries, i)
              /\ disk' = write_all(file_path, pop(entries, i), disk)
              /\ out' = <<<<"Undone: ">>>>
         ELSE /\ out' = <<<<"Nothing to undo.">>>>
              /\ UNCHANGED <<entries, disk>>
    /\ UNCHANGED <<repertoire, pc, prompt, amount, term, _old, config, config_loaded, file_path,
                   session_started, recording_index, current_task>>

\* Logger.reload_config, then the two prints of main()
Reload ==
    /\ pc = "AwaitingKey"
    /\ \E ch \in Keys("reload"), file \in ConfigFiles :
         /\ config' = load_config(file).config
         /\ config_loaded' = load_config(file).loaded
         /\ last' = Hist("reload", ch, <<>>, FALSE, file.kind)
    /\ out' = <<<<"Config reloaded.">>, Menu>>
    /\ UNCHANGED <<repertoire, pc, prompt, amount, term, _old, entries, file_path, disk,
                   session_started, recording_index, current_task>>

\* a stop that leaves Logger.session_started set
StopKeepsStarted ==
    /\ pc = "AwaitingKey"
    /\ \E ch \in Keys("stop"), t \in Times, ok \in BOOLEAN :
         /\ AppendEntry(<<"SESSION END">>, t, <<<<"Session ended.">>>>, ok)
         /\ Outcome(ok, "Stopped", RawInput_exit(_old, term))
         /\ last' = Hist("stop", ch, <<"SESSION END">>, TRUE, "")
    /\ UNCHANGED <<repertoire, _old, config, config_loaded, file_path, current_task,
                   session_started>>

\* Logger.stop, print, break, RawInput.__exit__
Stop ==
    /\ pc = "AwaitingKey"
    /\ \E ch \in Keys("stop"), t \in Times, ok \in BOOLEAN :
         /\ AppendEntry(<<"SESSION END">>, t, <<<<"Session ended.">>>>, ok)
         /\ Outcome(ok, "Stopped", RawInput_exit(_old, term))
         /\ session_started' = IF ok THEN FALSE ELSE session_started
         /\ last' = Hist("stop", ch, <<"SESSION END">>, TRUE, "")
    /\ UNCHANGED <<repertoire, _old, config, config_loaded, file_path, current_task>>

StartTask == AskFor("start_task", "task")

\* the START TASK branch after prompt_task returned
StartTaskAnswer ==
    /\ pc = "PromptingText" /\ prompt = "task"
    /\ \E typed \in TaskAnswers, t \in Times, ok \in BOOLEAN :
         LET task == prompt_task(config, typed) IN
         IF task # <<>>
           THEN /\ Room
                /\ current_task' = task
                /\ AppendEntry(<<"START TASK", ": ">> \o task, t, <<>>, ok)
                /\ Outcome(ok, "AwaitingKey", "raw")
                /\ last' = HistAnswer("start_task", <<typed>>, <<"START TASK", ": ">> \o task, TRUE)
           ELSE /\ ok
                /\ out' = <<>>
                /\ Resume
                /\ last' = HistAnswer("start_task", <<typed>>, <<>>, FALSE)
                /\ UNCHANGED <<entries, disk, recording_index, current_task>>
    /\ UNCHANGED <<repertoire, _old, config, config_loaded, file_path, session_started>>

StopTask == AskFor("stop_task", "trials")

\* an entry that brackets the tally even when it is empty
stop_task_entry_bracketed(task, trials) ==
    <<"STOP TASK", ": ">> \o Or(task, <<"UNKNOWN">>) \o <<" [">> \o trials \o <<"]">>

\* the entry the STOP TASK branch composes
stop_task_entry(task, trials) ==
    LET task_label == Or(task, <<"UNKNOWN">>) IN
    IF trials # <<>>
      THEN <<"STOP TASK", ": ">> \o task_label \o <<" [">> \o trials \o <<"]">>
      ELSE <<"STOP TASK", ": ">> \o task_label

\* the STOP TASK branch after prompt_trials returned
StopTaskAnswer ==
    /\ pc = "PromptingText" /\ prompt = "trials"
    /\ Room
    /\ \E typed \in TrialAnswers, t \in Times, ok \in BOOLEAN :
         LET entry == stop_task_entry(current_task, prompt_trials(typed)) IN
         /\ AppendEntry(entry, t, <<>>, ok)
         /\ Outcome(ok, "AwaitingKey", "raw")
         /\ last' = HistAnswer("stop_task", <<typed>>, entry, TRUE)
    /\ UNCHANGED <<repertoire, _old, config, config_loaded, file_path, session_started,
                   current_task>>

\* a macro with a text other than START TASK / STOP TASK
Macro ==
    /\ pc = "AwaitingKey"
    /\ Room
    /\ \E ch \in Keys("macro"), t \in Times, ok \in BOOLEAN :
         LET text == macro_text(config.macros[resolve(ch, config).macro]) IN
         /\ AppendEntry(text, t, <<>>, ok)
         /\ Outcome(ok, "AwaitingKey", term)
         /\ last' = Hist("macro", ch, text, TRUE, "")
    /\ UNCHANGED <<repertoire, _old, config, config_loaded, file_path, session_started,
                   current_task>>

\* a macro that matches the key and has neither text nor label
MacroEmpty ==
    /\ pc = "AwaitingKey"
    /\ \E ch \in Keys("macro_empty") : last' = Hist("macro_empty", ch, <<>>, FALSE, "")
    /\ out' = <<>>
    /\ UNCHANGED <<repertoire, pc, prompt, amount, term, _old, logger>>

\* an unknown key that is dropped without a word
UnknownKeySilent ==
    /\ pc = "AwaitingKey"
    /\ \E ch \in Keys("unknown") :
         /\ last' = Hist("unknown", ch, <<>>, FALSE, "")
         /\ out' = <<>>
    /\ UNCHANGED <<repertoire, pc, prompt, amount, term, _old, logger>>

UnknownKey ==
    /\ pc = "AwaitingKey"
    /\ \E ch \in Keys("unknown") :
         /\ last' = Hist("unknown", ch, <<>>, FALSE, "")
         /\ out' = <<<<"Unknown key: ">>>>
    /\ UNCHANGED <<repertoire, pc, prompt, amount, term, _old, logger>>

\* how main() is left by an exception raised at pc: inside the with block
\* RawInput.__exit__ runs, before it the terminal was never touched
Unwind ==
    /\ term' = IF pc = "start" THEN term ELSE RawInput_exit(_old, term)
    /\ prompt' = ""
    /\ amount' = <<>>

\* an interrupt handled as a stop: SESSION END is appended on the way out
InterruptStops ==
    /\ pc \in {"start", "AwaitingKey", "PromptingText"}
    /\ pc' = "Interrupted"
    /\ Unwind
    /\ last' = Hist("interrupt", "", <<>>, FALSE, "")
    /\ IF pc = "start"
         THEN /\ out' = <<<<"Interrupted.">>>>
              /\ UNCHANGED logger
         ELSE /\ \E t \in Times : AppendEntry(<<"SESSION END">>, t, <<<<"Interrupted.">>>>, TRUE)
              /\ UNCHANGED <<config, config_loaded, file_path, session_started, current_task>>
    /\ UNCHANGED <<repertoire, _old>>

\* KeyboardInterrupt at a blocking read: RawInput.__exit__ restores the
\* terminal, the handler at the bottom of the file prints the advice
Interrupt ==
    /\ pc \in {"start", "AwaitingKey", "PromptingText"}
    /\ pc' = "Interrupted"
    /\ Unwind
    /\ out' = <<<<"Interrupted.">>>>
    /\ last' = Hist("interrupt", "", <<>>, FALSE, "")
    /\ UNCHANGED <<repertoire, _old, logger>>

\* input() raises EOFError: the operator closed the input at a text prompt.
\* Nothing catches it; main() is left with a traceback on stderr.
EndOfInput ==
    /\ pc \in {"start", "PromptingText"}
    /\ pc' = "Crashed"
    /\ Unwind
    /\ out' = <<>>
    /\ last' = Hist("eof", "", <<>>, FALSE, "")
    /\ UNCHANGED <<repertoire, _old, logger>>

Init ==
    /\ pc = "start"
    /\ repertoire \in Repertoires
    /\ prompt = ""
    /\ amount = <<>>
    /\ \E file \in ConfigFiles :
         /\ config = load_config(file).config
         /\ config_loaded = load_config(file).loaded
    /\ entries = <<>>
    /\ file_path = <<>>
    /\ disk \in ExistingFiles
    /\ session_started = FALSE
    /\ recording_index = 0
    /\ current_task = <<>>
    /\ term = "cooked"
    /\ _old = ""
    /\ out = <<>>
    /\ last = [act |-> "init", key |-> "", typed |-> <<>>, macro |-> 0, text |-> <<>>, appended |-> FALSE,
               file |-> "", cfg |-> config, prePc |-> "start", pre |-> <<>>, preDisk |-> disk,
               preRec |-> 0, preTask |-> <<>>, mode |-> "", starts |-> 0, header0 |-> <<>>,
               prev |-> [appended |-> FALSE, pre |-> <<>>, preDisk |-> <<>>]]

Next ==
    \/ StartSession
    \/ ReadIgnored
    \/ Help
    \/ Note
    \/ NoteAnswer
    \/ Liquid
    \/ LiquidAmount
    \/ LiquidType
    \/ Mark
    \/ Undo
    \/ Reload
    \/ Stop
    \/ StartTask
    \/ StartTaskAnswer
    \/ StopTask
    \/ StopTaskAnswer
    \/ Macro
    \/ MacroEmpty
    \/ UnknownKey
    \/ Interrupt
    \/ EndOfInput

Spec == Init /\ [][Next]_vars


(* ------------------------------ properties ----------------------------- *)
\* each line followed by one line terminator
RECURSIVE Terminated(_)
Terminated(lines) ==
    IF lines = <<>> THEN <<>> ELSE lines[1] \o <<"\n">> \o Terminated(Tail(lines))

\* the rendered text of an event line: what follows "- [", time, "] "
RenderedOf(line) == SubSeq(line, 4, Len(line))

LastLine(lines) == lines[Len(lines)]

\* lines is the log before plus exactly one event line with the given text
AppendedTo(before, lines, rendered) ==
    \E t \in Times : lines = Append(before, <<"- [", t, "] ">> \o rendered)

\* C1: whenever the engine is about to read the next key, the content of the
\* session file is the in-memory lines, each followed by one newline, and
\* reading the file back yields exactly the in-memory lines.
C1_FileEqualsLines ==
    pc = "AwaitingKey" =>
        /\ disk = Terminated(entries)
        /\ splitlines(disk, <<>>) = entries

\* C1 witness: an undo has just removed one of two event lines from the log
C1_Witness ==
    /\ pc = "AwaitingKey"
    /\ last.act = "undo"
    /\ EventCount(last.pre) = 2
    /\ EventCount(entries) = 1

\* C2: an undo that directly follows a handler that appended leaves the lines
\* and the file as they were before that append.
C2_UndoRestoresAppend ==
    (last.act = "undo" /\ last.prev.appended) =>
        /\ entries = last.prev.pre
        /\ disk = last.prev.preDisk

\* C2 witness: append then undo, on a log that already held an event line
C2_Witness ==
    /\ last.act = "undo"
    /\ last.prev.appended
    /\ EventCount(last.prev.pre) >= 1

\* C3: once the session has started the log is the original header block
\* followed only by event lines; a handler adds or removes a line only at the
\* end, so the event lines stand in the order of their appends; an undo on a
\* log without event lines changes nothing and reports "Nothing to undo.".
C3_HeaderThenEvents ==
    last.header0 # <<>> =>
        LET h == Len(last.header0) IN
        /\ Len(entries) >= h
        /\ SubSeq(entries, 1, h) = last.header0
        /\ \A i \in 1..h : ~startswith(entries[i], "- [")
        /\ \A i \in (h + 1)..Len(entries) : startswith(entries[i], "- [")
        /\ \/ last.act = "start"
           \/ entries = last.pre
           \/ /\ last.appended
              /\ Len(entries) = Len(last.pre) + 1
              /\ SubSeq(entries, 1, Len(last.pre)) = last.pre
           \/ /\ last.act = "undo"
              /\ Len(last.pre) = Len(entries) + 1
              /\ SubSeq(last.pre, 1, Len(entries)) = entries
        /\ (last.act = "undo" /\ Len(last.pre) = h) =>
              /\ entries = last.pre
              /\ disk = last.preDisk
              /\ out = <<<<"Nothing to undo.">>>>

\* C3 witness: an undo on a log that holds the header only, after an earlier
\* undo has removed the only event line
C3_Witness ==
    /\ last.act = "undo"
    /\ last.header0 # <<>>
    /\ Len(last.pre) = Len(last.header0)
    /\ last.starts >= 1
    /\ out = <<<<"Nothing to undo.">>>>

\* C4: of the texts given to append_entry, the N-th that is START RECORDING
\* (trimmed, in any case) is rendered with index N; STOP RECORDING is rendered
\* with REC ? before the first start and with REC k after k starts, and leaves
\* the counter alone; any other text is rendered verbatim and leaves the
\* counter alone.
C4_RecordingRendering ==
    last.appended =>
        LET up == upper(strip(last.text))
            rendered == RenderedOf(LastLine(entries))
            n == last.starts
        IN  IF up = <<"START RECORDING">>
              THEN /\ n >= 1
                   /\ rendered = <<"START RECORDING", " (REC ", Digits[n + 1], ")">>
            ELSE IF up = <<"STOP RECORDING">>
              THEN /\ recording_index = last.preRec
                   /\ IF n = 0
                        THEN rendered = <<"STOP RECORDING", " (REC ?)">>
                        ELSE rendered = <<"STOP RECORDING", " (REC ", Digits[n + 1], ")">>
            ELSE /\ recording_index = last.preRec
                 /\ rendered = last.text

\* C4 witness: the second START RECORDING of the session comes from a note
\* typed in lower case with blanks around it
C4_Witness ==
    /\ last.act = "note"
    /\ last.appended
    /\ last.text = <<"start recording">>
    /\ last.starts = 2

\* the macros of cfg whose key is key
MacrosWithKey(cfg, key) ==
    {i \in 1..Len(cfg.macros) : Get(cfg.macros[i], "key", "") = key}

\* the notices among the lines a handler printed: everything but the menu
Notices(printed) == {i \in 1..Len(printed) : printed[i] # Menu}

\* C5: a reload that finds the configuration file malformed leaves the
\* configuration that was active before it in effect, and prints one notice.
C5_MalformedReloadKeepsConfig ==
    (last.act = "reload" /\ last.file = "malformed") =>
        /\ config = last.cfg
        /\ Cardinality(Notices(out)) = 1

\* C6: Stopped is entered only by the stop handler, from AwaitingKey; the
\* handler appends the one line SESSION END and clears session_started; in
\* Stopped no step is possible, so SESSION END ends the log and the file.
C6_StoppedOnlyByStop ==
    pc = "Stopped" =>
        /\ last.act = "stop"
        /\ last.prePc = "AwaitingKey"
        /\ AppendedTo(last.pre, entries, <<"SESSION END">>)
        /\ disk = Terminated(entries)
        /\ ~session_started
        /\ ~ENABLED Next

\* C6 witness: a session is stopped with two event lines in its log
C6_Witness ==
    /\ pc = "Stopped"
    /\ EventCount(last.pre) = 2

FixedRoles == {"help", "note", "liquid", "mark", "undo", "reload", "stop"}

\* the key configured for a fixed role
RoleKey(cfg, role) ==
    CASE role = "help"   -> cfg.help_key
      [] role = "note"   -> cfg.note_key
      [] role = "liquid" -> cfg.liquid_key
      [] role = "mark"   -> cfg.mark_key
      [] role = "undo"   -> cfg.undo_key
      [] role = "reload" -> cfg.reload_key
      [] role = "stop"   -> cfg.stop_key

\* C7: when the key of a fixed role is also the key of a macro, a press of
\* that key runs the handler of the fixed role and no macro.
C7_FixedRoleBeatsMacro ==
    \A role \in FixedRoles :
        (/\ last.key = RoleKey(last.cfg, role)
         /\ MacrosWithKey(last.cfg, last.key) # {}) =>
            /\ last.act = role
            /\ last.macro = 0
            /\ last.text \notin {macro_text(last.cfg.macros[i]) : i \in MacrosWithKey(last.cfg, last.key)}

\* C7 witness: "m" is the mark key and the key of a macro; the press appended
\* the separator
C7_Witness ==
    /\ last.act = "mark"
    /\ last.key = "m"
    /\ MacrosWithKey(last.cfg, "m") # {}
    /\ RenderedOf(LastLine(entries)) = <<"---">>

\* C8 as claimed: when two macros have the same key, a press of that key runs
\* the one defined later.
C8_LaterMacroWins ==
    (last.macro # 0 /\ Cardinality(MacrosWithKey(last.cfg, last.key)) >= 2) =>
        \A i \in MacrosWithKey(last.cfg, last.key) : i <= last.macro

\* C8 amended: when two macros have the same key, a press of that key runs
\* the one defined first, and only that one.
C8_FirstMacroWins ==
    (last.macro # 0 /\ Cardinality(MacrosWithKey(last.cfg, last.key)) >= 2) =>
        /\ \A i \in MacrosWithKey(last.cfg, last.key) : last.macro <= i
        /\ last.act = "macro" =>
              /\ last.text = macro_text(last.cfg.macros[last.macro])
              /\ Len(entries) = Len(last.pre) + 1

\* C8 witness: two macros have the key "1"; the press ran the first of them
C8_Witness ==
    /\ last.act = "macro"
    /\ last.key = "1"
    /\ Cardinality(MacrosWithKey(last.cfg, "1")) = 2
    /\ last.macro = 1

\* the START TASK or STOP TASK branch has run to its end
Answered(act) == last.act = act /\ last.prePc = "PromptingText"

\* C9: START TASK, by the answer (the typed line without the blanks around
\* it): empty - no entry, current_task unchanged; a number i with
\* 1 <= i <= number of tasks - current_task is the i-th task; anything else -
\* current_task is the answer; in both non-empty cases the one entry
\* START TASK: <task> is appended.
C9_StartTask ==
    Answered("start_task") =>
        LET answer == strip(last.typed[1])
            tasks == last.cfg.tasks
            task == IF isdigit(answer) /\ int(answer) \in 1..Len(tasks)
                      THEN tasks[int(answer)] ELSE answer
        IN  IF answer = <<>>
              THEN entries = last.pre /\ current_task = last.preTask
              ELSE /\ current_task = task
                   /\ AppendedTo(last.pre, entries, <<"START TASK", ": ">> \o task)

\* C9 witness: the answer 2 chose the second of two configured tasks
C9_Witness ==
    /\ Answered("start_task")
    /\ last.typed = <<<<"2">>>>
    /\ Len(last.cfg.tasks) = 2
    /\ current_task = <<"center out reach">>
    /\ last.preTask # current_task

\* C10: STOP TASK always appends one entry, STOP TASK: <t> for an empty tally
\* and STOP TASK: <t> [<tally>] otherwise, <t> being current_task, or UNKNOWN
\* when no task was started; it leaves current_task as it was.
C10_StopTask ==
    Answered("stop_task") =>
        LET tally == strip(last.typed[1])
            t == IF last.preTask = <<>> THEN <<"UNKNOWN">> ELSE last.preTask
        IN  /\ current_task = last.preTask
            /\ IF tally = <<>>
                 THEN AppendedTo(last.pre, entries, <<"STOP TASK", ": ">> \o t)
                 ELSE AppendedTo(last.pre, entries,
                                 <<"STOP TASK", ": ">> \o t \o <<" [">> \o tally \o <<"]">>)

\* C10 witness: a second STOP TASK in a row names the task of the first
C10_Witness ==
    /\ Answered("stop_task")
    /\ last.preTask # <<>>
    /\ EventCount(last.pre) >= 1
    /\ SubSeq(RenderedOf(LastLine(last.pre)), 1, 3) = <<"STOP TASK", ": ">> \o last.preTask
    /\ SubSeq(RenderedOf(LastLine(entries)), 1, 3) = <<"STOP TASK", ": ">> \o last.preTask

\* the name a liquid type answer stands for
LiquidName(ty) ==
    IF ty = <<"1">> THEN <<"water">>
    ELSE IF ty = <<"2">> THEN <<"diluted juice">> ELSE ty

\* C11 as stated: the liquid handler appends exactly one entry, chosen by the
\* type answer: LIQUID when both answers are empty, LIQUID: <amount> mL when
\* the type is empty, LIQUID: <amount> mL (<type>) for every other pair, an
\* empty amount with a type included.
C11_LiquidEntryByType ==
    Answered("liquid") =>
        LET a  == strip(last.typed[1])
            ty == strip(last.typed[2])
        IN  IF ty = <<>> /\ a = <<>>
              THEN AppendedTo(last.pre, entries, <<"LIQUID">>)
            ELSE IF ty = <<>>
              THEN AppendedTo(last.pre, entries, <<"LIQUID", ": ">> \o a \o <<" mL">>)
            ELSE AppendedTo(last.pre, entries,
                            <<"LIQUID", ": ">> \o a \o <<" mL">> \o <<" (">> \o LiquidName(ty) \o <<")">>)

\* C11: the liquid handler appends exactly one non-empty entry, chosen by the
\* amount answer first: bare LIQUID whenever the amount is empty (whatever
\* the type), LIQUID: <amount> mL when only the type is empty, and
\* LIQUID: <amount> mL (<type>) when both are given, 1 standing for water,
\* 2 for diluted juice and any other type text used as typed.
C11_LiquidEntry ==
    Answered("liquid") =>
        LET a  == strip(last.typed[1])
            ty == strip(last.typed[2])
        IN  /\ last.appended
            /\ IF a = <<>>
                 THEN AppendedTo(last.pre, entries, <<"LIQUID">>)
               ELSE IF ty = <<>>
                 THEN AppendedTo(last.pre, entries, <<"LIQUID", ": ">> \o a \o <<" mL">>)
               ELSE AppendedTo(last.pre, entries,
                               <<"LIQUID", ": ">> \o a \o <<" mL">> \o <<" (">> \o LiquidName(ty) \o <<")">>)

\* C11 witness: amount 5 and type 2 gave LIQUID: 5 mL (diluted juice)
C11_Witness ==
    /\ Answered("liquid")
    /\ last.typed = <<<<"5">>, <<"2">>>>
    /\ RenderedOf(LastLine(entries)) = <<"LIQUID", ": ", "5", " mL", " (", "diluted juice", ")">>

\* main() has returned or was left by an exception
Ended == pc \in {"Stopped", "Interrupted", "Crashed"}

\* C12: however the dispatch loop is left once RawInput.__enter__ has run (the
\* stop key, an interrupt at a key read or at a prompt, any other exception
\* of a handler), the process ends with the terminal in the mode __enter__
\* saved, never in raw mode.
C12_TerminalRestored ==
    (Ended /\ _old # "") =>
        /\ term = _old
        /\ _old = "cooked"
        /\ term # "raw"
        /\ ~ENABLED Next

\* C12 witness: the write of a key handler failed while the terminal was raw,
\* and the session ended with the saved mode back
C12_Witness ==
    /\ pc = "Crashed"
    /\ last.act = "macro"
    /\ last.mode = "raw"
    /\ term = "cooked"

\* C13 as stated: prompts are read in cooked mode, key reads happen in raw
\* mode, and once a prompt is over the terminal is raw again, also when the
\* prompt was ended by an interrupt.
C13_RawAfterEveryPrompt ==
    /\ pc = "PromptingText" => term = "cooked"
    /\ pc = "AwaitingKey" => term = "raw"
    /\ (last.prePc = "PromptingText" /\ pc \in {"AwaitingKey", "Interrupted"}) => term = "raw"

\* C13: every free-text prompt is read with the terminal in cooked mode and
\* every key read of the dispatch loop happens in raw mode: a prompt that
\* returns is followed by tty.setraw.  A prompt ended by an interrupt is not:
\* the loop is left with the terminal in the saved mode and no key is read
\* any more.
C13_PromptsCookedKeysRaw ==
    /\ pc = "PromptingText" => term = "cooked"
    /\ pc = "AwaitingKey" => term = "raw"
    /\ (last.prePc = "PromptingText" /\ pc = "AwaitingKey") => term = "raw"
    /\ (last.prePc = "PromptingText" /\ last.act = "interrupt") =>
          /\ pc = "Interrupted"
          /\ term = "cooked"
          /\ ~ENABLED Next

\* C13 witness: a prompt was interrupted in a session that holds an event
\* line; the terminal is in the saved mode
C13_Witness ==
    /\ last.act = "interrupt"
    /\ last.prePc = "PromptingText"
    /\ EventCount(entries) >= 1
    /\ pc = "Interrupted"
    /\ term = "cooked"

\* the event lines among what the last step printed
Echoed == {i \in 1..Len(out) : startswith(out[i], "- [")}

\* the lines of the session file
OnDisk == LET lines == splitlines(disk, <<>>) IN {lines[i] : i \in 1..Len(lines)}

\* C14: an event line on the display is a line of the file: append_entry
\* echoes the line after the rewrite of the file has completed, and when the
\* write fails the line is not echoed.
C14_EchoAfterWrite ==
    /\ \A i \in Echoed : out[i] \in OnDisk
    /\ (last.appended /\ pc # "Crashed") =>
          /\ Echoed = {1}
          /\ out[1] = LastLine(entries)
          /\ disk = Terminated(entries)
    /\ (last.appended /\ pc = "Crashed") => Echoed = {}

\* C14 witness: the write of a second event line failed after the file had
\* been truncated; nothing was echoed
C14_Witness ==
    /\ pc = "Crashed"
    /\ last.appended
    /\ EventCount(last.pre) = 1
    /\ disk = <<>>
    /\ out = <<>>

\* C15: an interrupt at a key read or at a text prompt ends the process
\* without another entry (no SESSION END); the file holds the lines as the
\* last completed append or undo left them.
C15_InterruptAppendsNothing ==
    (pc = "Interrupted" /\ last.prePc \in {"AwaitingKey", "PromptingText"}) =>
        /\ last.act = "interrupt"
        /\ entries = last.pre
        /\ disk = last.preDisk
        /\ disk = Terminated(entries)
        /\ \A i \in 1..Len(entries) : RenderedOf(entries[i]) # <<"SESSION END">>
        /\ recording_index = last.preRec
        /\ current_task = last.preTask
        /\ ~ENABLED Next

\* C15 witness: the interrupt came at a prompt, after an append and an undo
C15_Witness ==
    /\ pc = "Interrupted"
    /\ last.prePc = "PromptingText"
    /\ EventCount(entries) = 1
    /\ last.starts = 2

\* the records of handlers that main() dispatched a key to
Dispatched == last.act \notin {"init", "start", "interrupt", "eof"}

\* C16: a key that is no fixed-role key and no macro key is reported as
\* unknown; an empty or blank read is ignored without a report; neither
\* changes the lines, the file, recording_index, current_task, the
\* configuration or session_started, and the next key is awaited.
C16_UnknownAndBlankKeys ==
    /\ Dispatched =>
          /\ (last.key \in WS \cup {""}) <=> (last.act = "ignored")
          /\ (/\ last.key \notin WS \cup {""}
              /\ \A role \in FixedRoles : RoleKey(last.cfg, role) # last.key
              /\ MacrosWithKey(last.cfg, last.key) = {}) <=> (last.act = "unknown")
    /\ last.act = "unknown" => out = <<<<"Unknown key: ">>>>
    /\ last.act = "ignored" => out = <<>>
    /\ last.act \in {"unknown", "ignored"} =>
          /\ entries = last.pre
          /\ disk = last.preDisk
          /\ recording_index = last.preRec
          /\ current_task = last.preTask
          /\ config = last.cfg
          /\ session_started
          /\ pc = "AwaitingKey"
          /\ term = "raw"

\* C16 witness: "q" is pressed while the stop key is "x" and no macro has the
\* key "q", in a session with a task and an event line
C16_Witness ==
    /\ last.act = "unknown"
    /\ last.key = "q"
    /\ last.cfg.stop_key = "x"
    /\ EventCount(entries) >= 1
    /\ current_task # <<>>

\* the handlers that ask for a line of text
Prompting == {"note", "liquid", "start_task", "stop_task"}

\* C17 as stated: the Note, Liquid, START TASK and STOP TASK handlers append
\* their entry after the terminal is back in raw mode.
C17_AppendAfterSetraw ==
    (last.act \in Prompting /\ last.appended) => last.mode = "raw"

\* C17: the Note, Liquid, START TASK and STOP TASK handlers append their entry
\* (and write the file) while the terminal is still in cooked mode; tty.setraw
\* follows the append: cook, collect the answers, append, uncook.
C17_AppendBeforeSetraw ==
    (last.act \in Prompting /\ last.appended) =>
        /\ last.prePc = "PromptingText"
        /\ last.mode = "cooked"
        /\ pc = "AwaitingKey" => (term = "raw" /\ disk = Terminated(entries))
        /\ pc \in {"AwaitingKey", "Crashed"}

\* C17 witness: STOP TASK appended its entry and the next key is awaited
C17_Witness ==
    /\ last.act = "stop_task"
    /\ last.appended
    /\ last.mode = "cooked"
    /\ pc = "AwaitingKey"
    /\ term = "raw"

\* C18: undo changes the lines and the file only: recording_index and
\* current_task stay, so recording_index never decreases and a START RECORDING
\* is numbered by the starts of the session, undone ones included: after
\* START RECORDING, undo, START RECORDING the second start is REC 2.
C18_UndoKeepsSessionState ==
    /\ last.act = "undo" =>
          /\ recording_index = last.preRec
          /\ current_task = last.preTask
          /\ config = last.cfg
          /\ session_started
          /\ pc = "AwaitingKey"
    /\ recording_index >= last.preRec
    /\ recording_index = last.starts
    /\ (last.appended /\ upper(strip(last.text)) = <<"START RECORDING">>) =>
          /\ recording_index = last.preRec + 1
          /\ RenderedOf(LastLine(entries)) =
                <<"START RECORDING", " (REC ", Digits[recording_index + 1], ")">>

\* C18 witness: START RECORDING (REC 1) was undone and the next
\* START RECORDING, on a log without event lines, is REC 2
C18_Witness ==
    /\ last.appended
    /\ upper(strip(last.text)) = <<"START RECORDING">>
    /\ ~last.prev.appended
    /\ EventCount(last.prev.pre) = 1
    /\ RenderedOf(LastLine(last.prev.pre)) = <<"START RECORDING", " (REC ", "1", ")">>
    /\ EventCount(last.pre) = 0
    /\ RenderedOf(LastLine(entries)) = <<"START RECORDING", " (REC ", "2", ")">>

\* the order in which main() tests the fixed roles
FixedOrder == <<"help", "note", "liquid", "mark", "undo", "reload", "stop">>

\* the fixed roles tested before the given one
Earlier(role) == {r \in FixedRoles : Index(FixedOrder, r) < Index(FixedOrder, role)}

\* C19: when two fixed roles have the same key, a press of that key runs the
\* one tested first (help, note, liquid, mark, undo, reload, stop) and never
\* the later one; while stop_key is the key of an earlier role no key stops
\* the session, and a session that was stopped had a stop key of its own.
C19_FirstFixedRoleWins ==
    /\ \A r2 \in FixedRoles : \A r1 \in Earlier(r2) :
          (/\ Dispatched
           /\ RoleKey(last.cfg, r1) = RoleKey(last.cfg, r2)
           /\ last.key = RoleKey(last.cfg, r2)) =>
              /\ last.act \in Earlier(r2)
              /\ last.act # r2
    /\ (\E r \in Earlier("stop") : RoleKey(config, r) = RoleKey(config, "stop")) =>
          /\ \A ch \in Chars : resolve(ch, config).role # "stop"
          /\ ~ENABLED Stop
    /\ pc = "Stopped" =>
          \A r \in Earlier("stop") : RoleKey(last.cfg, r) # RoleKey(last.cfg, "stop")

\* C19 witness: stop_key and undo_key are both "u"; the press removed an
\* event line and the session goes on
C19_Witness ==
    /\ last.act = "undo"
    /\ last.key = "u"
    /\ last.cfg.stop_key = "u"
    /\ last.cfg.undo_key = "u"
    /\ EventCount(last.pre) = EventCount(entries) + 1
    /\ pc = "AwaitingKey"

\* other lines the operator may type at the weight and the notes prompt
OtherAnswers == {<<>>, <<"7.1">>, <<"calm">>, <<" ", "7.2">>}

\* C20: the path of the session file is the same whatever is typed for the
\* weight and the notes (it is made of the output directory, the date, the
\* behaviorists and the subject); a session that starts on the path of an
\* existing log leaves the new header block as the whole content of the file:
\* no event line of the earlier session is on disk any more.
C20_SameNameOverwrites ==
    last.act = "start" =>
        /\ \A d \in Dates, w \in OtherAnswers, n \in OtherAnswers :
              session_path([behaviorists |-> strip(last.typed[1]),
                            animal_id |-> strip(last.typed[2]),
                            animal_weight |-> strip(w), notes |-> strip(n)], d, config) = file_path
        /\ entries = last.header0
        /\ disk = Terminated(last.header0)
        /\ LET old == splitlines(last.preDisk, <<>>) IN
           \A i \in 1..Len(old) : startswith(old[i], "- [") => old[i] \notin OnDisk

\* C20 witness: the session started on the file of an earlier session that
\* held two event lines
C20_Witness ==
    /\ last.act = "start"
    /\ EventCount(splitlines(last.preDisk, <<>>)) = 2
    /\ EventCount(splitlines(disk, <<>>)) = 0

====
